---- MODULE Spec2Model ----
(***************************************************************************)
(* A model of the feedstock tool (make_package_db.py, create_feedstock.py) *)
(* and of the configuration service (config.py, main.py).                  *)
(*                                                                         *)
(* Four specifications share the module, one per part of the program:      *)
(*   SpecDb    parse_repodata and get_pkg_spec                             *)
(*   SpecReqs  extract_reqs, one scanned line per step                     *)
(*   SpecFeed  create_feedstock over a modelled file system                *)
(*   SpecCfg   the watcher's reload against the /info handler              *)
(* Text is modelled as TLA+ strings, read character by character with Len  *)
(* and SubSeq.                                                             *)
(***************************************************************************)
EXTENDS Integers, Sequences, FiniteSets, TLC

VARIABLES
    \* make_package_db.py / get_pkg_spec
    data,        \* the repodata mapping, as the sequence of its items
    pkg_db,      \* the package database file: name -> list of records
    db_written,  \* whether parse_repodata has written the database
    query,       \* the arguments of the last get_pkg_spec call
    answer,      \* what that call returned or raised
    \* extract_reqs
    meta_text,   \* the text of the metadata document it is given
    content,     \* f.read().split("\n")
    pos,         \* the index of the line the loop takes next
    in_req,      \* the scanner's state: inside the requirements section
    result,      \* the lines emitted so far
    emitted_at,  \* the indices in content of the lines emitted so far
    deps,        \* the returned string, None until the function returns
    rq,          \* where extract_reqs stands: "open", "scan", "returned"
    \* config.py / main.py
    env_file,    \* the values of the .env file
    settings,    \* main.py's global: the Settings object in force
    modified,    \* a modification of .env the observer has yet to dispatch
    gi,          \* where get_info stands: "idle" or the field it reads next
    partial,     \* the fields get_info has read so far
    held,        \* the Settings objects the global held during this request
    response,    \* the last /info response with the objects held while it was built
    edits,       \* how many times .env was rewritten
    served,      \* how many requests were answered
    \* create_feedstock
    recipes_dir, \* --recipes-dir, absolute
    pkgs_dir,    \* --pkgs-dir, absolute
    recipes,     \* the recipes directory: nv -> (file name -> file)
    pkgs,        \* the packages directory: path -> the file downloaded there
    deps_txt,    \* workdir/deps.txt: one entry per completed run
    run,         \* the number of the current run of main()
    pc,          \* where create_feedstock stands
    art,         \* the artifact (pkg_spec) of the current run
    extract_dir, \* where the artifact was unpacked
    urls,        \* the dict load_urls returned, in insertion order
    next_url,    \* the index of the entry the download loop takes next
    fetched,     \* the source archives downloaded in this run
    rewritten,   \* the text replace_urls wrote in this run
    finalized,   \* whether this run deleted meta.yaml and renamed the template
    error,       \* the exception that ended this run, None if none
    failed_at,   \* the step that raised it
    copied_by,   \* nv -> the run that last copied a recipe there
    history      \* the runs that ended: artifact, exception and step

dbVars == <<data, pkg_db, db_written, query, answer>>
reqVars == <<meta_text, content, pos, in_req, result, emitted_at, deps, rq>>

cfgVars == <<env_file, settings, modified, gi, partial, held, response, edits, served>>

feedVars ==
    <<recipes_dir, pkgs_dir, recipes, pkgs, deps_txt, run, pc, art, extract_dir, urls,
      next_url, fetched, rewritten, finalized, error, failed_at, copied_by, history>>

vars == <<dbVars, reqVars, cfgVars, feedVars>>

notDbVars == <<reqVars, cfgVars, feedVars>>
notReqVars == <<dbVars, cfgVars, feedVars>>
notCfgVars == <<dbVars, reqVars, feedVars>>
notFeedVars == <<dbVars, reqVars, cfgVars>>

(***************************************************************************)
(* Strings                                                                 *)
(***************************************************************************)
\* s[m..n] as Python slices it: indices beyond the string are cut off.
Mid(s, m, n) ==
    LET lo == IF m < 1 THEN 1 ELSE m
        hi == IF n > Len(s) THEN Len(s) ELSE n
    IN IF lo > hi THEN "" ELSE SubSeq(s, lo, hi)

Ch(s, i) == Mid(s, i, i)

StartsWith(s, p) == Len(p) <= Len(s) /\ SubSeq(s, 1, Len(p)) = p

EndsWith(s, p) == Len(p) <= Len(s) /\ SubSeq(s, Len(s) - Len(p) + 1, Len(s)) = p

\* Python's `sub in s`
Contains(s, sub) ==
    \E i \in 1..(Len(s) - Len(sub) + 1) : SubSeq(s, i, i + Len(sub) - 1) = sub

\* The characters of the model's texts in code point order.
AsciiOrder == " #-./0123456789:_abcdefghijklmnopqrstuvwxyz{}"

Ord(c) == CHOOSE i \in 1..Len(AsciiOrder) : Ch(AsciiOrder, i) = c

\* Python's str < str: by code point, a proper prefix first.
RECURSIVE StrLess(_, _)
StrLess(a, b) ==
    IF b = "" THEN FALSE
    ELSE IF a = "" THEN TRUE
    ELSE IF Ch(a, 1) = Ch(b, 1)
         THEN StrLess(SubSeq(a, 2, Len(a)), SubSeq(b, 2, Len(b)))
         ELSE Ord(Ch(a, 1)) < Ord(Ch(b, 1))

\* Python's s.split(sep) for a one-character sep.
RECURSIVE Split(_, _)
Split(s, sep) ==
    IF \A i \in 1..Len(s) : Ch(s, i) # sep THEN <<s>>
    ELSE LET k == CHOOSE i \in 1..Len(s) :
                      Ch(s, i) = sep /\ \A j \in 1..(i - 1) : Ch(s, j) # sep
         IN <<SubSeq(s, 1, k - 1)>> \o Split(SubSeq(s, k + 1, Len(s)), sep)

Digits == {"0", "1", "2", "3", "4", "5", "6", "7", "8", "9"}

DigitVal(c) == (CHOOSE i \in 1..10 : Ch("0123456789", i) = c) - 1

RECURSIVE IntOf(_)
IntOf(s) ==
    IF s = "" THEN 0
    ELSE 10 * IntOf(SubSeq(s, 1, Len(s) - 1)) + DigitVal(Ch(s, Len(s)))

\* An optional value: <<>> is None, <<v>> is v.
None == <<>>
Some(v) == <<v>>
Val(o) == o[1]

\* The exceptions of create_feedstock.py, under the names the specification
\* gives them: each is a ValueError, told apart by its message.
\* raise ValueError(f"Requested package {pkg} is not in database")
NotFoundError == "ValueError: Requested package is not in database"
\* raise ValueError(f"version {ver} of {pkg} is not found in the db")
VersionNotFoundError == "ValueError: version is not found in the db"
\* raise ValueError(f"Unknown hash type in {item}")
MissingHashError == "ValueError: Unknown hash type"

(***************************************************************************)
(* packaging.version.parse, on version strings over digits, "." and        *)
(* letters that PEP 440 gives no meaning ("x"): such a string is a version *)
(* exactly when it is a dotted sequence of numbers; anything else raises   *)
(* InvalidVersion.  The comparison key of a release is its numbers with    *)
(* the trailing zeros dropped, compared as tuples.                         *)
(***************************************************************************)
IsNumber(s) == s # "" /\ \A i \in 1..Len(s) : Ch(s, i) \in Digits

PVValid(v) == \A seg \in { Split(v, ".")[i] : i \in 1..Len(Split(v, ".")) } : IsNumber(seg)

RECURSIVE DropTrailingZeros(_)
DropTrailingZeros(t) ==
    IF t # <<>> /\ t[Len(t)] = 0 THEN DropTrailingZeros(SubSeq(t, 1, Len(t) - 1))
    ELSE t

PV(v) ==
    LET segs == Split(v, ".")
    IN DropTrailingZeros([i \in 1..Len(segs) |-> IntOf(segs[i])])

\* Python's tuple < tuple on tuples of integers.
RECURSIVE TupleLess(_, _)
TupleLess(a, b) ==
    IF b = <<>> THEN FALSE
    ELSE IF a = <<>> THEN TRUE
    ELSE IF a[1] = b[1] THEN TupleLess(Tail(a), Tail(b))
    ELSE a[1] < b[1]

PVLess(a, b) == TupleLess(PV(a), PV(b))

PVLeq(a, b) == ~TupleLess(PV(b), PV(a))

(***************************************************************************)
(* make_package_db.py                                                      *)
(***************************************************************************)
MaxPkgs == 3

forge_url == "https://cf"

\* The artifacts the channel may list: file name -> its metadata record.
Listing ==
    [pn \in {"a1", "a2", "a3", "a4", "a5", "a6", "a7", "b1"} |->
       CASE pn = "a1" -> [name |-> "a", version |-> "1.0", subdir |-> "linux-64",
                          build |-> "py310_0", depends |-> <<"python">>, timestamp |-> 2]
         [] pn = "a2" -> [name |-> "a", version |-> "1.0.0", subdir |-> "noarch",
                          build |-> "py39_0", depends |-> <<>>, timestamp |-> 1]
         [] pn = "a3" -> [name |-> "a", version |-> "9.0", subdir |-> "linux-64",
                          build |-> "py310_0", depends |-> <<>>]
         [] pn = "a4" -> [name |-> "a", version |-> "10.0", subdir |-> "linux-64",
                          build |-> "py39_0", depends |-> <<>>, timestamp |-> 3]
         [] pn = "a5" -> [name |-> "a", version |-> "10.0", subdir |-> "linux-64",
                          build |-> "py310_0", depends |-> <<>>, timestamp |-> 3]
         [] pn = "a6" -> [name |-> "a", version |-> "1.x", subdir |-> "noarch",
                          build |-> "py39_0", depends |-> <<>>, timestamp |-> 0]
         [] pn = "a7" -> [name |-> "a", version |-> "1.x", subdir |-> "linux-64",
                          build |-> "py39_0", depends |-> <<>>, timestamp |-> 0]
         [] pn = "b1" -> [name |-> "b", version |-> "9.0", subdir |-> "noarch",
                          build |-> "py310_0", depends |-> <<"a">>, timestamp |-> 1]]

\* The repodata mappings: up to MaxPkgs listed artifacts, in any order.
Repodatas ==
    { d \in UNION { [1..n -> DOMAIN Listing] : n \in 0..MaxPkgs } :
        \A i, j \in DOMAIN d : i # j => d[i] # d[j] }

\* The record parse_repodata appends for the item pn -> p.
PackageRecord(pn, p) ==
    [name |-> p.name,
     version |-> p.version,
     url |-> forge_url \o "/" \o p.subdir \o "/" \o pn,
     depends |-> p.depends,
     nv |-> p.name \o "-" \o p.version,
     timestamp |-> IF "timestamp" \in DOMAIN p THEN p.timestamp ELSE 0,
     build |-> p.build]

\* pkg_db[n] before the sort: the records of name n in the order of data.items().
RECURSIVE Grouped(_, _)
Grouped(d, n) ==
    IF d = <<>> THEN <<>>
    ELSE LET p == Listing[d[1]]
         IN (IF p.name = n THEN <<PackageRecord(d[1], p)>> ELSE <<>>)
            \o Grouped(Tail(d), n)

\* key=lambda x: PV(x["version"])
VersionKeyLess(x, y) == PVLess(x.version, y.version)

\* key=lambda x: (x["version"], x["timestamp"], x["build"])
TupleKeyLess(x, y) ==
    \/ StrLess(x.version, y.version)
    \/ /\ x.version = y.version
       /\ \/ x.timestamp < y.timestamp
          \/ x.timestamp = y.timestamp /\ StrLess(x.build, y.build)

KeyLess(key, x, y) ==
    IF key = "PV" THEN VersionKeyLess(x, y) ELSE TupleKeyLess(x, y)

\* Python's sorted(v, key=...): stable, so an element goes after every element
\* before it that is not greater.
RECURSIVE sorted(_, _)
sorted(v, key) ==
    IF v = <<>> THEN <<>>
    ELSE LET s == sorted(SubSeq(v, 1, Len(v) - 1), key)
             x == v[Len(v)]
             k == Cardinality({ i \in 1..Len(s) : ~KeyLess(key, x, s[i]) })
         IN SubSeq(s, 1, k) \o <<x>> \o SubSeq(s, k + 1, Len(s))

\* A sort that is not the code's: the tuple order for every group.
SortGroupTupleOnly(v) == sorted(v, "tuple")

\* The try/except of parse_repodata: one unparseable version makes the key raise,
\* and the whole group is sorted by the tuple key instead.
SortGroup(v) ==
    IF \A i \in 1..Len(v) : PVValid(v[i].version)
    THEN sorted(v, "PV")
    ELSE sorted(v, "tuple")

NamesOf(d) == { Listing[d[i]].name : i \in 1..Len(d) }

parse_repodata ==
    /\ ~db_written
    /\ pkg_db' = [n \in NamesOf(data) |-> SortGroup(Grouped(data, n))]
    /\ db_written' = TRUE
    /\ UNCHANGED <<data, query, answer, notDbVars>>

(***************************************************************************)
(* create_feedstock.py: get_pkg_spec                                       *)
(***************************************************************************)
\* A filter that is not the code's: it keeps an empty selection.
FilterSpecsNoFallback(pkg_specs, py) ==
    IF py # None /\ Val(py) # ""
    THEN SelectSeq(pkg_specs, LAMBDA x : Contains(x.build, Val(py)))
    ELSE pkg_specs

\* `if py:` ... the list narrowed to the builds containing py, unless that is empty.
FilterSpecs(pkg_specs, py) ==
    IF py # None /\ Val(py) # ""
    THEN LET filter_pkg_specs == SelectSeq(pkg_specs, LAMBDA x : Contains(x.build, Val(py)))
         IN IF Len(filter_pkg_specs) > 0 THEN filter_pkg_specs ELSE pkg_specs
    ELSE pkg_specs

\* for p in reversed(pkg_specs): if PV(p["version"]) <= PV(ver): ... break
RECURSIVE ScanReversed(_, _, _)
ScanReversed(pkg_specs, i, ver) ==
    IF i = 0 THEN [kind |-> VersionNotFoundError]
    ELSE IF ~PVValid(pkg_specs[i].version) \/ ~PVValid(ver)
         THEN [kind |-> "InvalidVersion"]
    ELSE IF PVLeq(pkg_specs[i].version, ver)
         THEN [kind |-> "ok", spec |-> pkg_specs[i]]
    ELSE ScanReversed(pkg_specs, i - 1, ver)

GetPkgSpec(pkg, ver, py, db) ==
    IF pkg \notin DOMAIN db THEN [kind |-> NotFoundError]
    ELSE LET pkg_specs == FilterSpecs(db[pkg], py)
         IN IF ver = None
            THEN IF pkg_specs = <<>> THEN [kind |-> "IndexError"]
                 ELSE [kind |-> "ok", spec |-> pkg_specs[Len(pkg_specs)]]
            ELSE ScanReversed(pkg_specs, Len(pkg_specs), Val(ver))

NoQuery == [pkg |-> "", ver |-> None, py |-> None]
NoAnswer == [kind |-> "none"]

QueryNames == {"a", "b", "c"}
QueryBounds == {None, Some("0.5"), Some("1.0"), Some("9.0"), Some("10.0")}
QueryFilters == {None, Some(""), Some("py310"), Some("py39"), Some("py27")}

\* One run of main() resolves one query against the database file.
get_pkg_spec ==
    /\ db_written
    /\ answer = NoAnswer
    /\ \E pkg \in QueryNames, ver \in QueryBounds, py \in QueryFilters :
         /\ query' = [pkg |-> pkg, ver |-> ver, py |-> py]
         /\ answer' = GetPkgSpec(pkg, ver, py, pkg_db)
    /\ UNCHANGED <<data, pkg_db, db_written, notDbVars>>

\* The process ends; the database file stays for the next run.
main_exit ==
    /\ answer # NoAnswer
    /\ query' = NoQuery
    /\ answer' = NoAnswer
    /\ UNCHANGED <<data, pkg_db, db_written, notDbVars>>

(***************************************************************************)
(* create_feedstock.py: extract_reqs                                       *)
(***************************************************************************)
MaxLines == 3

Whitespace == {" ", "\t", "\r"}

\* Python's str.strip()
RECURSIVE Strip(_)
Strip(s) ==
    IF s = "" THEN s
    ELSE IF Ch(s, 1) \in Whitespace THEN Strip(SubSeq(s, 2, Len(s)))
    ELSE IF Ch(s, Len(s)) \in Whitespace THEN Strip(SubSeq(s, 1, Len(s) - 1))
    ELSE s

\* Python's sep.join(lines)
RECURSIVE Join(_, _)
Join(lines, sep) ==
    IF lines = <<>> THEN ""
    ELSE IF Len(lines) = 1 THEN lines[1]
    ELSE lines[1] \o sep \o Join(Tail(lines), sep)

keys == {"host:", "run:", "build:", "run_constrained:"}

\* A test that is not the code's: the whole line is 'requirements:'.
StartsSectionExact(line) == line = "requirements:"

\* `line.startswith("requirements:")`, tested outside the section
StartsSection(line) == StartsWith(line, "requirements:")

\* A test that is not the code's: the sub-keys end the section too.
EndsSectionAnyKey(line) == EndsWith(line, ":")

\* `line.endswith(":") and line not in keys`, tested inside the section
EndsSection(line) == EndsWith(line, ":") /\ line \notin keys

\* The lines the documents of the model are made of.
LinePool ==
    {"requirements:", "  host:", "    - a", "about:", "", "  # c:",
     "requirements: x", "  summary: x", "  {% if x %}:"}

ExampleDoc == "requirements:\n  host:\n    - a\n  run:\n    - b\nabout:\n  summary: x"

Docs ==
    { Join(ls, "\n") : ls \in UNION { [1..n -> LinePool] : n \in 0..MaxLines } }
        \cup {ExampleDoc}

\* with open(meta_yaml) as f: content = f.read().split("\n")
extract_reqs_open ==
    /\ rq = "open"
    /\ content' = Split(meta_text, "\n")
    /\ pos' = 1
    /\ in_req' = FALSE
    /\ result' = <<>>
    /\ emitted_at' = <<>>
    /\ rq' = "scan"
    /\ UNCHANGED <<meta_text, deps, notReqVars>>

\* One turn of `for line in content:` on the raw line: the scanner's next state
\* and whether the trimmed line is appended to result.
ScanLine(inside, raw) ==
    LET line == Strip(raw)
    IN IF line = "" THEN [in_req |-> inside, emit |-> FALSE]
       ELSE IF ~inside
            THEN IF ~StartsSection(line) THEN [in_req |-> FALSE, emit |-> FALSE]
                 ELSE [in_req |-> TRUE, emit |-> TRUE]
       ELSE IF StartsWith(line, "#") THEN [in_req |-> TRUE, emit |-> FALSE]
       ELSE IF StartsWith(line, "{") THEN [in_req |-> TRUE, emit |-> TRUE]
       ELSE IF StartsWith(line, "-") THEN [in_req |-> TRUE, emit |-> TRUE]
       ELSE IF EndsSection(line) THEN [in_req |-> FALSE, emit |-> FALSE]
       ELSE [in_req |-> TRUE, emit |-> TRUE]

extract_reqs_line ==
    /\ rq = "scan"
    /\ pos <= Len(content)
    /\ LET st == ScanLine(in_req, content[pos])
       IN /\ in_req' = st.in_req
          /\ result' = IF st.emit THEN Append(result, Strip(content[pos])) ELSE result
          /\ emitted_at' = IF st.emit THEN Append(emitted_at, pos) ELSE emitted_at
    /\ pos' = pos + 1
    /\ UNCHANGED <<meta_text, content, deps, rq, notReqVars>>

\* The whole loop, from line i of lines on.
RECURSIVE ScanFrom(_, _, _, _)
ScanFrom(lines, i, inside, acc) ==
    IF i > Len(lines) THEN acc
    ELSE LET st == ScanLine(inside, lines[i])
         IN ScanFrom(lines, i + 1, st.in_req,
                     IF st.emit THEN Append(acc, Strip(lines[i])) ELSE acc)

\* extract_reqs on the text of a file
ExtractReqs(text) == Join(ScanFrom(Split(text, "\n"), 1, FALSE, <<>>), "\n")

\* return "\n".join(result)
extract_reqs_return ==
    /\ rq = "scan"
    /\ pos > Len(content)
    /\ deps' = Some(Join(result, "\n"))
    /\ rq' = "returned"
    /\ UNCHANGED <<meta_text, content, pos, in_req, result, emitted_at, notReqVars>>

ReqInit ==
    /\ meta_text \in Docs
    /\ content = <<>>
    /\ pos = 1
    /\ in_req = FALSE
    /\ result = <<>>
    /\ emitted_at = <<>>
    /\ deps = None
    /\ rq = "open"

ReqIdle ==
    /\ meta_text = ""
    /\ content = <<>>
    /\ pos = 1
    /\ in_req = FALSE
    /\ result = <<>>
    /\ emitted_at = <<>>
    /\ deps = None
    /\ rq = "open"

(***************************************************************************)
(* create_feedstock.py: paths, URLs and file names                         *)
(***************************************************************************)
\* Python's s.replace(old, new), old not empty
RECURSIVE Replace(_, _, _)
Replace(s, old, new) ==
    IF Len(s) < Len(old) THEN s
    ELSE IF StartsWith(s, old)
         THEN new \o Replace(Mid(s, Len(old) + 1, Len(s)), old, new)
    ELSE Ch(s, 1) \o Replace(Mid(s, 2, Len(s)), old, new)

\* The index of the last c in s, 0 when there is none.
LastIndex(s, c) ==
    IF \E i \in 1..Len(s) : Ch(s, i) = c
    THEN CHOOSE i \in 1..Len(s) : Ch(s, i) = c /\ \A j \in (i + 1)..Len(s) : Ch(s, j) # c
    ELSE 0

\* The index of the first c in s at or after from, 0 when there is none.
FirstIndex(s, c, from) ==
    IF \E i \in from..Len(s) : Ch(s, i) = c
    THEN CHOOSE i \in from..Len(s) : Ch(s, i) = c /\ \A j \in from..(i - 1) : Ch(s, j) # c
    ELSE 0

\* os.path.join(a, b)
PathJoin(a, b) ==
    IF StartsWith(b, "/") THEN b
    ELSE IF a = "" \/ EndsWith(a, "/") THEN a \o b
    ELSE a \o "/" \o b

\* os.path.basename(p)
Basename(p) == Mid(p, LastIndex(p, "/") + 1, Len(p))

\* os.path.dirname(p): the head, without its trailing slashes unless it is the root
RECURSIVE RStripSlash(_)
RStripSlash(h) ==
    IF h # "" /\ (\E i \in 1..Len(h) : Ch(h, i) # "/") /\ EndsWith(h, "/")
    THEN RStripSlash(Mid(h, 1, Len(h) - 1))
    ELSE h

Dirname(p) == RStripSlash(Mid(p, 1, LastIndex(p, "/")))

\* The components of os.path.normpath(p) for an absolute p.
RECURSIVE NormParts(_, _)
NormParts(parts, acc) ==
    IF parts = <<>> THEN acc
    ELSE IF parts[1] = "" \/ parts[1] = "." THEN NormParts(Tail(parts), acc)
    ELSE IF parts[1] = ".."
         THEN NormParts(Tail(parts), SubSeq(acc, 1, Len(acc) - 1))
    ELSE NormParts(Tail(parts), Append(acc, parts[1]))

Normpath(p) == "/" \o Join(NormParts(Split(p, "/"), <<>>), "/")

\* os.path.relpath(path, start), both absolute
Relpath(path, start) ==
    LET sl == NormParts(Split(start, "/"), <<>>)
        pl == NormParts(Split(path, "/"), <<>>)
        common == { n \in 0..Len(sl) : n <= Len(pl) /\ \A k \in 1..n : sl[k] = pl[k] }
        i == CHOOSE n \in common : \A m \in common : m <= n
        rel == [k \in 1..(Len(sl) - i) |-> ".."] \o SubSeq(pl, i + 1, Len(pl))
    IN IF rel = <<>> THEN "." ELSE Join(rel, "/")

\* urllib.parse.urlparse(url).path for a URL scheme://netloc/path without
\* parameters, query or fragment
UrlPath(url) ==
    LET c == FirstIndex(url, ":", 1)
    IN IF c > 0 /\ Mid(url, c, c + 2) = "://"
       THEN LET s == FirstIndex(url, "/", c + 3)
            IN IF s = 0 THEN "" ELSE Mid(url, s, Len(url))
       ELSE url

url_basename(url) == Basename(UrlPath(url))

WordChars ==
    Digits \cup {"_"} \cup { Ch("abcdefghijklmnopqrstuvwxyz", i) : i \in 1..26 }

\* ([\-.]\d+)+
IsSepNumbers(t) ==
    /\ t # ""
    /\ Ch(t, 1) \in {"-", "."}
    /\ Ch(t, Len(t)) \in Digits
    /\ \A i \in 1..Len(t) : Ch(t, i) \in Digits \cup {"-", "."}
    /\ \A i \in 1..(Len(t) - 1) : Ch(t, i) \in {"-", "."} => Ch(t, i + 1) \in Digits

\* (\.\w+)+
IsDotWords(t) ==
    /\ t # ""
    /\ Ch(t, 1) = "."
    /\ Ch(t, Len(t)) \in WordChars
    /\ \A i \in 1..Len(t) : Ch(t, i) \in WordChars \cup {"."}
    /\ \A i \in 1..(Len(t) - 1) : Ch(t, i) = "." => Ch(t, i + 1) \in WordChars

\* re.compile(r"^v?\d+([\-.]\d+)+(\.\w+)+$").match
fn_is_simple(fn) ==
    LET s == IF StartsWith(fn, "v") THEN Mid(fn, 2, Len(fn)) ELSE fn
    IN \E i, j \in 1..Len(s) :
         /\ i < j
         /\ IsNumber(Mid(s, 1, i))
         /\ IsSepNumbers(Mid(s, i + 1, j))
         /\ IsDotWords(Mid(s, j + 1, Len(s)))

(***************************************************************************)
(* create_feedstock.py: load_urls and replace_urls                         *)
(***************************************************************************)
\* The value load_urls stores for one item of the source list.
UrlEntry(item) ==
    LET hash_type == IF "md5" \in DOMAIN item THEN "md5"
                     ELSE IF "sha256" \in DOMAIN item THEN "sha256"
                     ELSE "sha1"
    IN [url |-> item.url,
        hash_type |-> hash_type,
        hash |-> item[hash_type],
        fn |-> IF "fn" \in DOMAIN item THEN Some(item.fn) ELSE None]

\* result[url] = ...: a dict keeps a key's first position and its last value.
DictSet(d, e) ==
    IF \E i \in 1..Len(d) : d[i].url = e.url
    THEN [i \in 1..Len(d) |-> IF d[i].url = e.url THEN e ELSE d[i]]
    ELSE Append(d, e)

HasHash(item) == \E k \in {"md5", "sha256", "sha1"} : k \in DOMAIN item

\* A loop that is not the code's: it passes over an item without a hash.
RECURSIVE LoadUrlItemsSkipping(_, _, _)
LoadUrlItemsSkipping(sources, i, acc) ==
    IF i > Len(sources) THEN [kind |-> "ok", urls |-> acc]
    ELSE IF "url" \notin DOMAIN sources[i] \/ ~HasHash(sources[i])
         THEN LoadUrlItemsSkipping(sources, i + 1, acc)
    ELSE LoadUrlItemsSkipping(sources, i + 1, DictSet(acc, UrlEntry(sources[i])))

\* The loop of load_urls over the items from index i on, acc being the dict
\* so far; the first item with a url and no hash raises.
RECURSIVE LoadUrlItems(_, _, _)
LoadUrlItems(sources, i, acc) ==
    IF i > Len(sources) THEN [kind |-> "ok", urls |-> acc]
    ELSE IF "url" \notin DOMAIN sources[i] THEN LoadUrlItems(sources, i + 1, acc)
    ELSE IF ~HasHash(sources[i]) THEN [kind |-> MissingHashError]
    ELSE LoadUrlItems(sources, i + 1, DictSet(acc, UrlEntry(sources[i])))

\* load_urls on the parsed document: source may be missing, one mapping or a list.
LoadUrls(meta) ==
    IF "source" \notin DOMAIN meta THEN [kind |-> "ok", urls |-> <<>>]
    ELSE LoadUrlItems(IF meta.source.list THEN meta.source.items
                      ELSE <<meta.source.items>>, 1, <<>>)

\* How many of the leading characters of s are whitespace.
RECURSIVE LeadingSpace(_)
LeadingSpace(s) ==
    IF s # "" /\ Ch(s, 1) \in Whitespace THEN 1 + LeadingSpace(Mid(s, 2, Len(s)))
    ELSE 0

\* url_regex.match(line) for (^\s*-?\s*url:\s*)([^{]+)\{\{.*\}\}([^}]+)$ :
\* None, or the groups 1, 2 (head) and 3 (tail).
UrlLineMatch(line) ==
    LET a == LeadingSpace(line)
        b == IF Ch(line, a + 1) = "-" THEN a + 1 ELSE a
        c == b + LeadingSpace(Mid(line, b + 1, Len(line)))
        p == c + 5                         \* the first index after "url:"
        w == LeadingSpace(Mid(line, p, Len(line)))
        q == FirstIndex(line, "{", p)      \* where the head must end
        r == LastIndex(line, "}")          \* where the tail must begin
        g == IF p + w = q THEN w - 1 ELSE w  \* the whitespace left to group 1
    IN IF /\ Mid(line, c + 1, c + 4) = "url:"
          /\ q > p
          /\ Mid(line, q, q + 1) = "{{"
          /\ r >= q + 3
          /\ Mid(line, r - 1, r) = "}}"
          /\ r < Len(line)
       THEN Some([g1 |-> Mid(line, 1, p - 1 + g),
                  head |-> Mid(line, p + g, q - 1),
                  tail |-> Mid(line, r + 1, Len(line))])
       ELSE None

\* re.match(re.escape(head) + r".*" + re.escape(tail), u)
UrlMatches(head, tail, u) ==
    /\ StartsWith(u, head)
    /\ \E i \in (Len(head) + 1)..(Len(u) - Len(tail) + 1) :
         Mid(u, i, i + Len(tail) - 1) = tail

MatchingUrls(m, known) == { i \in 1..Len(known) : UrlMatches(m.head, m.tail, known[i].url) }

\* A choice that is not the code's: the last matching URL.
LastMatch(m, known) ==
    CHOOSE i \in MatchingUrls(m, known) : \A j \in MatchingUrls(m, known) : j <= i

\* for u in urls.keys(): if re.match(url_pattern, u): new_url = u; break
FirstMatch(m, known) ==
    CHOOSE i \in MatchingUrls(m, known) : \A j \in MatchingUrls(m, known) : i <= j

\* The lines replace_urls writes for one line of the template.
ReplaceLine(line, known, dest_dir, meta_yaml_tpl) ==
    LET mm == UrlLineMatch(line)
    IN IF mm = None THEN <<line>>
       ELSE IF MatchingUrls(Val(mm), known) = {} THEN <<line>>
       ELSE LET e == known[FirstMatch(Val(mm), known)]
                fn == IF e.fn # None THEN Val(e.fn) ELSE url_basename(e.url)
                pkg_path == Relpath(PathJoin(dest_dir, fn), Dirname(meta_yaml_tpl))
            IN <<"#" \o line, Val(mm).g1 \o pkg_path>>

RECURSIVE ReplaceLines(_, _, _, _)
ReplaceLines(lines, known, dest_dir, meta_yaml_tpl) ==
    IF lines = <<>> THEN <<>>
    ELSE ReplaceLine(lines[1], known, dest_dir, meta_yaml_tpl)
            \o ReplaceLines(Tail(lines), known, dest_dir, meta_yaml_tpl)

\* replace_urls: the text it writes back to the file meta_yaml_tpl
ReplaceUrls(text, known, dest_dir, meta_yaml_tpl) ==
    Join(ReplaceLines(Split(text, "\n"), known, dest_dir, meta_yaml_tpl), "\n")

(***************************************************************************)
(* config.py and main.py                                                   *)
(***************************************************************************)
MaxEdits == 2
MaxRequests == 2

\* What dotenv_values may find in .env; a key may be missing.
EnvFiles ==
    [APP_NAME : {Some("shop"), Some("store"), None},
     ADMIN_EMAIL : {Some("a@x"), Some("b@x")},
     ITEMS_PER_USER : {Some("5"), Some("50"), Some("many")}]

\* load_settings succeeds: int() accepts the quota and the model validates.
Loadable(envs) ==
    /\ envs.APP_NAME # None
    /\ envs.ADMIN_EMAIL # None
    /\ envs.ITEMS_PER_USER # None
    /\ IsNumber(Val(envs.ITEMS_PER_USER))

load_settings(envs) ==
    [app_name |-> Val(envs.APP_NAME),
     admin_email |-> Val(envs.ADMIN_EMAIL),
     items_per_user |-> IntOf(Val(envs.ITEMS_PER_USER))]

\* Somebody rewrites .env; the polling observer will notice.
write_env ==
    /\ edits < MaxEdits
    /\ \E envs \in EnvFiles :
         /\ envs # env_file
         /\ env_file' = envs
    /\ modified' = TRUE
    /\ edits' = edits + 1
    /\ UNCHANGED <<settings, gi, partial, held, response, served, notCfgVars>>

\* EnvHandler.on_modified on the observer's thread: load_config loads the file
\* and hands the new object to reload_settings, which rebinds the global.  A
\* file load_settings cannot load raises before the global is touched.
on_modified ==
    /\ modified
    /\ modified' = FALSE
    /\ IF Loadable(env_file)
       THEN /\ settings' = load_settings(env_file)
            /\ held' = IF gi = "idle" THEN held ELSE held \cup {load_settings(env_file)}
       ELSE UNCHANGED <<settings, held>>
    /\ UNCHANGED <<env_file, gi, partial, response, edits, served, notCfgVars>>

\* get_info builds its dict with three reads of the global, one per field; the
\* observer's thread may run between any two of them.
get_info_app_name ==
    /\ gi = "idle"
    /\ served < MaxRequests
    /\ partial' = [app_name |-> settings.app_name]
    /\ held' = {settings}
    /\ gi' = "admin_email"
    /\ UNCHANGED <<env_file, settings, modified, response, edits, served, notCfgVars>>

get_info_admin_email ==
    /\ gi = "admin_email"
    /\ partial' = [app_name |-> partial.app_name, admin_email |-> settings.admin_email]
    /\ gi' = "items_per_user"
    /\ UNCHANGED <<env_file, settings, modified, held, response, edits, served, notCfgVars>>

get_info_items_per_user ==
    /\ gi = "items_per_user"
    /\ response' = Some([body |-> [app_name |-> partial.app_name,
                                   admin_email |-> partial.admin_email,
                                   items_per_user |-> settings.items_per_user],
                         held |-> held])
    /\ partial' = <<>>
    /\ held' = {}
    /\ gi' = "idle"
    /\ served' = served + 1
    /\ UNCHANGED <<env_file, settings, modified, edits, notCfgVars>>

\* The module has been imported: settings = load_settings(), and the handler's
\* constructor has loaded the same file once more.
CfgInit ==
    /\ env_file \in { e \in EnvFiles : Loadable(e) }
    /\ settings = load_settings(env_file)
    /\ modified = FALSE
    /\ gi = "idle"
    /\ partial = <<>>
    /\ held = {}
    /\ response = None
    /\ edits = 0
    /\ served = 0

CfgIdle ==
    /\ env_file = [APP_NAME |-> Some("shop"), ADMIN_EMAIL |-> Some("a@x"),
                   ITEMS_PER_USER |-> Some("5")]
    /\ settings = load_settings(env_file)
    /\ modified = FALSE
    /\ gi = "idle"
    /\ partial = <<>>
    /\ held = {}
    /\ response = None
    /\ edits = 0
    /\ served = 0

(***************************************************************************)
(* create_feedstock.py: create_feedstock                                   *)
(***************************************************************************)
MaxRuns == 2

\* A file that is not YAML, or whose parsed form nothing reads.
Plain(text) == [text |-> text, meta |-> <<>>]

\* The artifacts of the channel the runs are given: the record get_pkg_spec
\* returned for each and the info/recipe tree its archive unpacks to, with the
\* parent subdirectory of a multi-output recipe.  meta is what the YAML loader
\* returns for the file.
Artifacts ==
    [a \in {"foo_conda", "foo_bz2", "foo_nohash", "bar_multi", "baz_nosrc"} |->
       CASE a = "foo_conda" ->
              [spec |-> [name |-> "foo", version |-> "1.0", nv |-> "foo-1.0",
                         url |-> "https://cf/linux-64/foo-1.0-py310_0.conda"],
               recipe |->
                 [f \in {"meta.yaml", "meta.yaml.template", "conda_build_config.yaml",
                         "build.sh"} |->
                    CASE f = "meta.yaml" ->
                           [text |-> "source:\n  - url: https://h/foo-1.0.tar.gz",
                            meta |-> [source |-> [list |-> TRUE, items |->
                              << [url |-> "https://h/foo-1.0.tar.gz", sha256 |-> "aa"],
                                 [path |-> "patches"],
                                 [url |-> "https://g/v1.0.zip", md5 |-> "bb",
                                  sha256 |-> "cc"] >>]]]
                      [] f = "meta.yaml.template" ->
                           Plain("source:\n  - url: https://h/foo-{{ version }}.tar.gz\n"
                                 \o "  - url: https://g/v{{ version }}.zip\n"
                                 \o "  - url: https://k/{{ name }}.txt\n"
                                 \o "requirements:\n  run:\n    - python\nabout:")
                      [] OTHER -> Plain(f)],
               parent |-> None]
         [] a = "foo_bz2" ->
              [spec |-> [name |-> "foo", version |-> "1.0", nv |-> "foo-1.0",
                         url |-> "https://cf/noarch/foo-1.0-py39_0.tar.bz2"],
               recipe |->
                 [f \in {"meta.yaml", "meta.yaml.template", "bld.bat"} |->
                    CASE f = "meta.yaml" ->
                           [text |-> "source:\n  - url: https://h/foo-1.0.zip",
                            meta |-> [source |-> [list |-> TRUE, items |->
                              << [url |-> "https://h/foo-1.0.zip", sha1 |-> "dd",
                                  fn |-> "src.zip"],
                                 [url |-> "https://g/1.0.zip", sha256 |-> "ee"] >>]]]
                      [] f = "meta.yaml.template" ->
                           Plain("source:\n  - url: https://{{ mirror }}1.0.zip\n"
                                 \o "requirements:\n  host:\n    - pip\ntest:")
                      [] OTHER -> Plain(f)],
               parent |-> None]
         [] a = "foo_nohash" ->
              [spec |-> [name |-> "foo", version |-> "1.0", nv |-> "foo-1.0",
                         url |-> "https://cf/linux-64/foo-1.0-py27_0.tar.bz2"],
               recipe |->
                 [f \in {"meta.yaml", "meta.yaml.template", "run_test.py"} |->
                    CASE f = "meta.yaml" ->
                           [text |-> "source:\n  - url: https://h/foo-1.0.tgz",
                            meta |-> [source |-> [list |-> TRUE, items |->
                              << [url |-> "https://h/foo-1.0.tgz", sha256 |-> "ff"],
                                 [url |-> "https://h/data.bin"] >>]]]
                      [] f = "meta.yaml.template" ->
                           Plain("source:\n  - url: https://h/foo-{{ version }}.tgz")
                      [] OTHER -> Plain(f)],
               parent |-> None]
         [] a = "bar_multi" ->
              [spec |-> [name |-> "bar", version |-> "2.0", nv |-> "bar-2.0",
                         url |-> "https://cf/linux-64/bar-2.0-h1_0.conda"],
               recipe |->
                 [f \in {"meta.yaml", "conda_build_config.yaml", "outer.txt"} |->
                    CASE f = "meta.yaml" ->
                           [text |-> "source:\n  url: https://h/bar-2.0.tgz",
                            meta |-> [source |-> [list |-> FALSE, items |->
                              [url |-> "https://h/bar-2.0.tgz", sha256 |-> "gg"]]]]
                      [] OTHER -> Plain(f)],
               parent |-> Some(
                 [f \in {"meta.yaml", "conda_build_config.yaml", "build.sh"} |->
                    CASE f = "meta.yaml" ->
                           Plain("source:\n  url: https://h/bar-{{ version }}.tgz\n"
                                 \o "requirements:\n  build:\n    - make\noutputs:")
                      [] OTHER -> Plain("parent " \o f)])]
         [] a = "baz_nosrc" ->
              [spec |-> [name |-> "baz", version |-> "3", nv |-> "baz-3",
                         url |-> "https://cf/noarch/baz-3-0.tar.bz2"],
               recipe |->
                 [f \in {"meta.yaml", "meta.yaml.template"} |->
                    CASE f = "meta.yaml" ->
                           [text |-> "requirements:\n  run:\n    - a",
                            meta |-> [package |-> "baz"]]
                      [] OTHER ->
                           Plain("requirements:\n  run:\n    - a\nabout:\n  home: x")],
               parent |-> None]]

\* os.path.exists(os.path.join(old_recipe, "parent"))
HasParent(a) == Artifacts[a].parent # None

\* A copy that is not the code's: the outer recipe, parent or not.
SourceTreeOuter(a) == Artifacts[a].recipe

\* The tree shutil.copytree copies: parent's for a multi-output recipe.
SourceTree(a) ==
    IF HasParent(a) THEN Val(Artifacts[a].parent) ELSE Artifacts[a].recipe

\* A function with one more (or one changed) argument.
Put(f, k, v) == [x \in DOMAIN f \cup {k} |-> IF x = k THEN v ELSE f[x]]

Without(f, k) == [x \in DOMAIN f \ {k} |-> f[x]]

\* A copy that is not the code's: onto the directory already there.
NewRecipeMerged(dirs, nv, tree, r) ==
    LET copy == [f \in DOMAIN tree |-> [text |-> tree[f].text, meta |-> tree[f].meta, by |-> r]]
    IN IF nv \in DOMAIN dirs
       THEN [f \in DOMAIN dirs[nv] \cup DOMAIN tree |->
               IF f \in DOMAIN tree THEN copy[f] ELSE dirs[nv][f]]
       ELSE copy

\* if os.path.exists(new_recipe): shutil.rmtree(new_recipe), then
\* shutil.copytree(..., new_recipe): the directory run r leaves at nv.
NewRecipe(dirs, nv, tree, r) ==
    [f \in DOMAIN tree |-> [text |-> tree[f].text, meta |-> tree[f].meta, by |-> r]]

new_recipe == PathJoin(recipes_dir, Artifacts[art].spec.nv)

\* The destination name of a source entry: the explicit fn or the URL's base
\* name, with the package name in front when it is only a version.
DestFilename(pkg, e) ==
    LET fn == IF e.fn # None THEN Val(e.fn) ELSE url_basename(e.url)
    IN IF fn_is_simple(fn) THEN pkg \o "-" \o fn ELSE fn

\* The name, in new_recipe, of the document replace_urls rewrites.
TemplateName(a) == IF HasParent(a) THEN "meta.yaml" ELSE "meta.yaml.template"

Fail(kind) ==
    /\ pc' = "failed"
    /\ error' = Some(kind)
    /\ failed_at' = pc

\* main() has resolved the package and calls create_feedstock.
create_feedstock ==
    /\ pc = "idle"
    /\ run < MaxRuns
    /\ \E a \in DOMAIN Artifacts : art' = a
    /\ run' = run + 1
    /\ pc' = "download_pkg"
    /\ extract_dir' = ""
    /\ urls' = <<>>
    /\ next_url' = 1
    /\ fetched' = <<>>
    /\ rewritten' = None
    /\ finalized' = FALSE
    /\ error' = None
    /\ failed_at' = ""
    /\ UNCHANGED <<recipes_dir, pkgs_dir, recipes, pkgs, deps_txt, copied_by, history,
                   notFeedVars>>

\* download_file(pkg_spec["url"], out_fn) has fetched the binary package.
cf_download_pkg ==
    /\ pc = "download_pkg"
    /\ pc' = "unpack"
    /\ UNCHANGED <<recipes_dir, pkgs_dir, recipes, pkgs, deps_txt, run, art, extract_dir,
                   urls, next_url, fetched, rewritten, finalized, error, failed_at,
                   copied_by, history, notFeedVars>>

\* The archive is unpacked into extract_dir, a .conda in its two layers.
cf_unpack ==
    /\ pc = "unpack"
    /\ LET out_fn == PathJoin("/w/workdir", url_basename(Artifacts[art].spec.url))
       IN extract_dir' =
            PathJoin("/w/workdir",
                     Replace(Replace(Basename(out_fn), ".tar.bz2", ""), ".conda", ""))
    /\ pc' = "copy"
    /\ UNCHANGED <<recipes_dir, pkgs_dir, recipes, pkgs, deps_txt, run, art, urls, next_url,
                   fetched, rewritten, finalized, error, failed_at, copied_by, history,
                   notFeedVars>>

\* urlopen, a read or the unpacking raises: the exception ends the run.  A
\* source download that fails has already opened its destination for writing.
io_error ==
    /\ pc \in {"download_pkg", "unpack", "download_src"}
    /\ pc = "download_src" => next_url <= Len(urls)
    /\ Fail("IOError")
    /\ IF pc = "download_src"
       THEN LET fn == DestFilename(Artifacts[art].spec.name, urls[next_url])
            IN /\ urls' = [urls EXCEPT ![next_url].fn = Some(fn)]
               /\ pkgs' = Put(pkgs, PathJoin(pkgs_dir, fn),
                              [url |-> urls[next_url].url, by |-> run, complete |-> FALSE])
       ELSE UNCHANGED <<urls, pkgs>>
    /\ UNCHANGED <<recipes_dir, pkgs_dir, recipes, deps_txt, run, art, extract_dir, next_url,
                   fetched, rewritten, finalized, copied_by, history, notFeedVars>>

\* Lines 246-268: the old directory of this nv is removed, the recipe (or its
\* parent) is copied, and a single-output copy loses conda_build_config.yaml.
cf_copy ==
    /\ pc = "copy"
    /\ LET nv == Artifacts[art].spec.nv
           copy == NewRecipe(recipes, nv, SourceTree(art), run)
       IN recipes' = Put(recipes, nv,
                         IF HasParent(art) THEN copy
                         ELSE Without(copy, "conda_build_config.yaml"))
    /\ copied_by' = Put(copied_by, Artifacts[art].spec.nv, run)
    /\ pc' = "load_urls"
    /\ UNCHANGED <<recipes_dir, pkgs_dir, pkgs, deps_txt, run, art, extract_dir, urls,
                   next_url, fetched, rewritten, finalized, error, failed_at, history,
                   notFeedVars>>

\* urls = load_urls(meta_yaml): of the copy, or of the unpacked outer recipe
\* when the recipe has a parent.
cf_load_urls ==
    /\ pc = "load_urls"
    /\ LET dir == IF HasParent(art) THEN Artifacts[art].recipe
                  ELSE recipes[Artifacts[art].spec.nv]
       IN IF "meta.yaml" \notin DOMAIN dir
          THEN Fail("FileNotFoundError") /\ UNCHANGED urls
          ELSE LET r == LoadUrls(dir["meta.yaml"].meta)
               IN IF r.kind = "ok"
                  THEN urls' = r.urls /\ pc' = "download_src" /\ UNCHANGED <<error, failed_at>>
                  ELSE Fail(r.kind) /\ UNCHANGED urls
    /\ UNCHANGED <<recipes_dir, pkgs_dir, recipes, pkgs, deps_txt, run, art, extract_dir,
                   next_url, fetched, rewritten, finalized, copied_by, history, notFeedVars>>

\* One turn of `for url, v in urls.items():` whose download succeeds.
cf_download_source ==
    /\ pc = "download_src"
    /\ next_url <= Len(urls)
    /\ LET fn == DestFilename(Artifacts[art].spec.name, urls[next_url])
           full_fn == PathJoin(pkgs_dir, fn)
       IN /\ urls' = [urls EXCEPT ![next_url].fn = Some(fn)]
          /\ pkgs' = Put(pkgs, full_fn,
                         [url |-> urls[next_url].url, by |-> run, complete |-> TRUE])
          /\ fetched' = Append(fetched, [url |-> urls[next_url].url, path |-> full_fn])
    /\ next_url' = next_url + 1
    /\ UNCHANGED <<recipes_dir, pkgs_dir, recipes, deps_txt, run, pc, art, extract_dir,
                   rewritten, finalized, error, failed_at, copied_by, history, notFeedVars>>

\* replace_urls(meta_yaml_tpl, urls, pkgs_dir)
cf_replace_urls ==
    /\ pc = "download_src"
    /\ next_url > Len(urls)
    /\ LET nv == Artifacts[art].spec.nv
           tpl == TemplateName(art)
       IN IF tpl \notin DOMAIN recipes[nv]
          THEN Fail("FileNotFoundError") /\ UNCHANGED <<recipes, rewritten>>
          ELSE LET text == ReplaceUrls(recipes[nv][tpl].text, urls, pkgs_dir,
                                       PathJoin(new_recipe, tpl))
               IN /\ recipes' = [recipes EXCEPT ![nv][tpl].text = text]
                  /\ rewritten' = Some(text)
                  /\ pc' = "finalize"
                  /\ UNCHANGED <<error, failed_at>>
    /\ UNCHANGED <<recipes_dir, pkgs_dir, pkgs, deps_txt, run, art, extract_dir, urls,
                   next_url, fetched, finalized, copied_by, history, notFeedVars>>

\* Lines 280-288: without a parent, os.remove(meta_yaml) and
\* shutil.move(meta_yaml_tpl, meta_yaml); with one, nothing.
cf_finalize ==
    /\ pc = "finalize"
    /\ LET nv == Artifacts[art].spec.nv
       IN IF HasParent(art)
          THEN pc' = "extract_reqs" /\ UNCHANGED <<recipes, finalized, error, failed_at>>
          ELSE IF "meta.yaml" \notin DOMAIN recipes[nv]
               THEN Fail("FileNotFoundError") /\ UNCHANGED <<recipes, finalized>>
          ELSE /\ recipes' = [recipes EXCEPT ![nv] =
                                Put(Without(recipes[nv], "meta.yaml.template"),
                                    "meta.yaml", recipes[nv]["meta.yaml.template"])]
               /\ finalized' = TRUE
               /\ pc' = "extract_reqs"
               /\ UNCHANGED <<error, failed_at>>
    /\ UNCHANGED <<recipes_dir, pkgs_dir, pkgs, deps_txt, run, art, extract_dir, urls,
                   next_url, fetched, rewritten, copied_by, history, notFeedVars>>

\* deps = extract_reqs(new_recipe/meta.yaml), appended to deps.txt under the nv.
cf_extract_reqs ==
    /\ pc = "extract_reqs"
    /\ LET nv == Artifacts[art].spec.nv
       IN IF "meta.yaml" \notin DOMAIN recipes[nv]
          THEN Fail("FileNotFoundError") /\ UNCHANGED deps_txt
          ELSE /\ deps_txt' = Append(deps_txt,
                                [nv |-> nv, deps |-> ExtractReqs(recipes[nv]["meta.yaml"].text)])
               /\ pc' = "done"
               /\ UNCHANGED <<error, failed_at>>
    /\ UNCHANGED <<recipes_dir, pkgs_dir, recipes, pkgs, run, art, extract_dir, urls,
                   next_url, fetched, rewritten, finalized, copied_by, history, notFeedVars>>

\* The process ends, normally or on the exception; the directories stay.
cf_exit ==
    /\ pc \in {"done", "failed"}
    /\ history' = Append(history, [art |-> art, error |-> error, failed_at |-> failed_at])
    /\ pc' = "idle"
    /\ UNCHANGED <<recipes_dir, pkgs_dir, recipes, pkgs, deps_txt, run, art, extract_dir,
                   urls, next_url, fetched, rewritten, finalized, error, failed_at,
                   copied_by, notFeedVars>>

FeedStart ==
    /\ recipes = <<>>
    /\ pkgs = <<>>
    /\ deps_txt = <<>>
    /\ run = 0
    /\ pc = "idle"
    /\ art = "foo_conda"
    /\ extract_dir = ""
    /\ urls = <<>>
    /\ next_url = 1
    /\ fetched = <<>>
    /\ rewritten = None
    /\ finalized = FALSE
    /\ error = None
    /\ failed_at = ""
    /\ copied_by = <<>>
    /\ history = <<>>

FeedInit ==
    /\ \E d \in {<<"/w/recipes", "/w/pkgs">>, <<"/out", "/out/src/pkgs">>} :
         recipes_dir = d[1] /\ pkgs_dir = d[2]
    /\ FeedStart

FeedIdle ==
    /\ recipes_dir = "/w/recipes"
    /\ pkgs_dir = "/w/pkgs"
    /\ FeedStart

DbInit ==
    /\ data \in Repodatas
    /\ pkg_db = <<>>
    /\ db_written = FALSE
    /\ query = NoQuery
    /\ answer = NoAnswer

DbIdle ==
    /\ data = <<>>
    /\ pkg_db = <<>>
    /\ db_written = FALSE
    /\ query = NoQuery
    /\ answer = NoAnswer

InitDb == DbInit /\ ReqIdle /\ CfgIdle /\ FeedIdle

NextDb == parse_repodata \/ get_pkg_spec \/ main_exit

SpecDb == InitDb /\ [][NextDb]_vars

InitReqs == ReqInit /\ DbIdle /\ CfgIdle /\ FeedIdle

NextReqs == extract_reqs_open \/ extract_reqs_line \/ extract_reqs_return

SpecReqs == InitReqs /\ [][NextReqs]_vars

InitCfg == CfgInit /\ DbIdle /\ ReqIdle /\ FeedIdle

NextCfg ==
    \/ write_env
    \/ on_modified
    \/ get_info_app_name
    \/ get_info_admin_email
    \/ get_info_items_per_user

SpecCfg == InitCfg /\ [][NextCfg]_vars

InitFeed == FeedInit /\ DbIdle /\ ReqIdle /\ CfgIdle

NextFeed ==
    \/ create_feedstock
    \/ cf_download_pkg
    \/ cf_unpack
    \/ io_error
    \/ cf_copy
    \/ cf_load_urls
    \/ cf_download_source
    \/ cf_replace_urls
    \/ cf_finalize
    \/ cf_extract_reqs
    \/ cf_exit

SpecFeed == InitFeed /\ [][NextFeed]_vars

(***************************************************************************)
(* Claims on the package database and the resolver (SpecDb)                *)
(***************************************************************************)
\* Where the record r stood among the items of data.
InputIndex(r) ==
    CHOOSE i \in 1..Len(data) : PackageRecord(data[i], Listing[data[i]]) = r

\* The candidate group of the last query: the records whose build contains the
\* filter, or the whole group when none does (or no filter was given).
Candidates ==
    LET group == pkg_db[query.pkg]
        matching == { i \in 1..Len(group) :
                        query.py # None /\ Contains(group[i].build, Val(query.py)) }
    IN IF matching # {} THEN { group[i] : i \in matching }
       ELSE { group[i] : i \in 1..Len(group) }

Answered == answer # NoAnswer /\ query.pkg \in DOMAIN pkg_db

\* C1: with an upper bound, get_pkg_spec returns the newest candidate whose
\* version is <= the bound, and fails with VersionNotFoundError when every
\* candidate's version exceeds the bound.
C1_NewestNotAboveBound ==
    (Answered /\ query.ver # None) =>
        LET bound == Val(query.ver)
            fits(c) == PVValid(c.version) /\ PVLeq(c.version, bound)
            exceeds(c) == PVValid(c.version) /\ PVLess(bound, c.version)
        IN /\ answer.kind = "ok" =>
                /\ answer.spec \in Candidates
                /\ fits(answer.spec)
                /\ \A c \in Candidates :
                     fits(c) => PVLeq(c.version, answer.spec.version)
           /\ (\E c \in Candidates : fits(c)) => answer.kind = "ok"
           /\ (\A c \in Candidates : exceeds(c)) => answer.kind = VersionNotFoundError

\* The same statement on the groups whose versions all parse: there the scan
\* does return the newest fitting record.
C1_OnParseableGroups ==
    (Answered /\ \A i \in 1..Len(pkg_db[query.pkg]) : PVValid(pkg_db[query.pkg][i].version))
        => C1_NewestNotAboveBound

\* C2: without an upper bound get_pkg_spec succeeds under every build filter and
\* returns the last record whose build contains the filter, or the last record
\* of the whole group when no build contains it.
C2_FilterNeverEmpties ==
    (Answered /\ query.ver = None) =>
        LET group == pkg_db[query.pkg]
            matching == { i \in 1..Len(group) :
                            query.py # None /\ Contains(group[i].build, Val(query.py)) }
        IN /\ answer.kind = "ok"
           /\ answer.spec =
                IF matching # {}
                THEN group[CHOOSE i \in matching : \A j \in matching : j <= i]
                ELSE group[Len(group)]

\* A filter that matches no build of a group of several records was answered.
C2_Witness ==
    /\ Answered
    /\ query.ver = None
    /\ query.py = Some("py27")
    /\ Len(pkg_db[query.pkg]) >= 2
    /\ answer.kind = "ok"

\* C3: every group of the written database is non-empty, holds exactly the
\* input's records of that name, and is ascending by parsed version, or, when
\* one version of the group does not parse, ascending by (version string,
\* timestamp, build) as a whole; records with equal keys keep their input order.
C3_GroupsSortedStable ==
    db_written =>
        \A n \in DOMAIN pkg_db :
            LET g == pkg_db[n]
                parseable == \A i \in 1..Len(g) : PVValid(g[i].version)
                less(x, y) == IF parseable THEN PVLess(x.version, y.version)
                              ELSE TupleKeyLess(x, y)
            IN /\ g # <<>>
               /\ Len(g) = Cardinality({ i \in 1..Len(data) : Listing[data[i]].name = n })
               /\ \A i \in 1..Len(data) :
                    Listing[data[i]].name = n =>
                        \E j \in 1..Len(g) : g[j] = PackageRecord(data[i], Listing[data[i]])
               /\ \A i, j \in 1..Len(g) :
                    i < j => /\ ~less(g[j], g[i])
                             /\ ~less(g[i], g[j]) => InputIndex(g[i]) < InputIndex(g[j])

\* A group with an unparseable version whose records the sort has reordered, and
\* which holds two records with the same tuple key.
C3_Witness ==
    /\ db_written
    /\ \E n \in DOMAIN pkg_db :
         /\ \E i \in 1..Len(pkg_db[n]) : ~PVValid(pkg_db[n][i].version)
         /\ pkg_db[n] # Grouped(data, n)
         /\ \E i, j \in 1..Len(pkg_db[n]) :
              i < j /\ ~TupleKeyLess(pkg_db[n][i], pkg_db[n][j])

(***************************************************************************)
(* Claims on extract_reqs (SpecReqs)                                       *)
(***************************************************************************)
Returned == rq = "returned"

\* The trimmed line at index i of the document.
Trimmed(i) == Strip(content[i])

\* A line that, met inside the section, ends it.
Breaker(i) ==
    /\ Trimmed(i) # ""
    /\ ~StartsWith(Trimmed(i), "#")
    /\ ~StartsWith(Trimmed(i), "{")
    /\ ~StartsWith(Trimmed(i), "-")
    /\ EndsWith(Trimmed(i), ":")
    /\ Trimmed(i) \notin keys

\* C6 as stated: the emitted lines keep their indentation, and the example
\* document yields 'requirements:\n  host:\n    - a\n  run:\n    - b'.
C6_IndentationKept ==
    (Returned /\ meta_text = ExampleDoc) =>
        Val(deps) = "requirements:\n  host:\n    - a\n  run:\n    - b"

\* C6 as amended: extract_reqs returns the emitted lines, each trimmed of its
\* surrounding whitespace, joined by newlines in document order; nothing is
\* emitted from a line that ends the section up to the next line beginning with
\* 'requirements:'; the example document yields
\* 'requirements:\nhost:\n- a\nrun:\n- b'.
C6_TrimmedLinesOfSection ==
    Returned =>
        /\ Val(deps) = Join([k \in 1..Len(emitted_at) |-> Trimmed(emitted_at[k])], "\n")
        /\ \A k \in 1..Len(emitted_at) :
             /\ emitted_at[k] \in 1..Len(content)
             /\ k > 1 => emitted_at[k - 1] < emitted_at[k]
             /\ \E s \in 1..emitted_at[k] :
                  /\ StartsWith(Trimmed(s), "requirements:")
                  /\ \E j \in 1..k : emitted_at[j] = s
                  /\ \A b \in (s + 1)..emitted_at[k] : ~Breaker(b)
        /\ meta_text = ExampleDoc =>
             Val(deps) = "requirements:\nhost:\n- a\nrun:\n- b"

\* extract_reqs has returned on the example document.
C6_Witness == Returned /\ meta_text = ExampleDoc /\ Len(emitted_at) = 5

\* C10 as stated: outside the section only a line equal, after trimming, to
\* 'requirements:' is emitted and enters the section; every other line is
\* discarded and leaves the state unchanged.
C10_OnlyExactLineStarts ==
    [][(rq = "scan" /\ pos' = pos + 1 /\ ~in_req) =>
          IF Trimmed(pos) = "requirements:"
          THEN in_req' /\ result' = Append(result, Trimmed(pos))
          ELSE ~in_req' /\ result' = result]_vars

\* C10 as amended: outside the section a line is emitted and enters the section
\* exactly when, after trimming, it begins with 'requirements:'; every other
\* line is discarded and leaves the state unchanged.
C10_PrefixLineStarts ==
    [][(rq = "scan" /\ pos' = pos + 1 /\ ~in_req) =>
          IF StartsWith(Trimmed(pos), "requirements:")
          THEN in_req' /\ result' = Append(result, Trimmed(pos))
          ELSE ~in_req' /\ result' = result]_vars

\* A section has ended, and a line that only begins with 'requirements:' was
\* then emitted from the state outside and started the next one.
C10_Witness ==
    /\ rq = "scan"
    /\ in_req
    /\ pos = 4
    /\ Trimmed(2) = "about:"
    /\ result = <<"requirements:", "requirements: x">>
    /\ emitted_at = <<1, 3>>

(***************************************************************************)
(* Claim on the configuration service (SpecCfg)                            *)
(***************************************************************************)
\* C8: every /info response reports the three fields of one single Settings
\* object among those the global held while the response was built.
C8_ResponseFromOneSnapshot ==
    response # None =>
        \E snap \in Val(response).held : Val(response).body = snap

(***************************************************************************)
(* Claims on create_feedstock (SpecFeed)                                   *)
(***************************************************************************)
Nv == Artifacts[art].spec.nv

InRun == pc # "idle"

\* The source list load_urls reads for artifact a.
SourceItems(a) ==
    LET meta == Artifacts[a].recipe["meta.yaml"].meta
    IN IF "source" \notin DOMAIN meta THEN <<>>
       ELSE IF meta.source.list THEN meta.source.items
       ELSE <<meta.source.items>>

\* Some source entry of a declares a url and none of md5, sha256, sha1.
Hashless(a) ==
    \E i \in 1..Len(SourceItems(a)) :
        /\ "url" \in DOMAIN SourceItems(a)[i]
        /\ DOMAIN SourceItems(a)[i] \cap {"md5", "sha256", "sha1"} = {}

\* C4: a recipe with a source entry that declares a url and no hash makes
\* create_feedstock fail at load_urls with MissingHashError, before any source
\* archive of the run is downloaded: the run never reaches the download loop
\* and leaves no file of its own in the packages directory.
C4_MissingHashAbortsBeforeDownloads ==
    (InRun /\ Hashless(art)) =>
        /\ fetched = <<>>
        /\ \A path \in DOMAIN pkgs : pkgs[path].by # run
        /\ pc \notin {"download_src", "finalize", "extract_reqs", "done"}
        /\ (pc = "failed" /\ failed_at = "load_urls") => error = Some(MissingHashError)

\* The run of a recipe whose hash-less entry follows one with a hash has failed
\* at load_urls, after an earlier run had downloaded sources.
C4_Witness ==
    /\ pc = "failed"
    /\ art = "foo_nohash"
    /\ error = Some(MissingHashError)
    /\ \E i, j \in 1..Len(SourceItems(art)) :
         i < j /\ "sha256" \in DOMAIN SourceItems(art)[i]
               /\ DOMAIN SourceItems(art)[j] = {"url"}
    /\ pkgs # <<>>

\* C5: once replace_urls has run, every line of the template that has the
\* candidate shape and matches a known URL stands in the rewritten document
\* behind a '#', immediately followed by the line's 'url:' prefix and a path
\* that, resolved against the document's directory, is the file in the
\* packages directory to which this run downloaded the first matching URL
\* in discovery order, under its explicit fn or base name, the package name in
\* front of a version-only name.
C5_RoundTrip ==
    pc \in {"finalize", "extract_reqs", "done"} =>
        LET original == Split(SourceTree(art)[TemplateName(art)].text, "\n")
            docname == IF pc = "finalize" THEN TemplateName(art) ELSE "meta.yaml"
            doc == Split(recipes[Nv][docname].text, "\n")
        IN \A k \in 1..Len(original) :
             LET mm == UrlLineMatch(original[k])
             IN (mm # None /\ \E i \in 1..Len(urls) :
                                UrlMatches(Val(mm).head, Val(mm).tail, urls[i].url)) =>
                  LET first == CHOOSE i \in 1..Len(urls) :
                                 /\ UrlMatches(Val(mm).head, Val(mm).tail, urls[i].url)
                                 /\ \A j \in 1..(i - 1) :
                                      ~UrlMatches(Val(mm).head, Val(mm).tail, urls[j].url)
                      item == CHOOSE it \in { SourceItems(art)[n] : n \in 1..Len(SourceItems(art)) } :
                                 "url" \in DOMAIN it /\ it.url = urls[first].url
                      name == IF "fn" \in DOMAIN item THEN item.fn
                              ELSE url_basename(item.url)
                      dest == PathJoin(pkgs_dir,
                                       IF fn_is_simple(name)
                                       THEN Artifacts[art].spec.name \o "-" \o name
                                       ELSE name)
                  IN \E j \in 1..(Len(doc) - 1) :
                       /\ doc[j] = "#" \o original[k]
                       /\ StartsWith(doc[j + 1], Val(mm).g1)
                       /\ Normpath(PathJoin(new_recipe,
                                            Mid(doc[j + 1], Len(Val(mm).g1) + 1,
                                                Len(doc[j + 1])))) = dest
                       /\ \E n \in 1..Len(fetched) :
                            fetched[n].url = urls[first].url /\ fetched[n].path = dest

\* A run has completed on the recipe whose template line matches both of its
\* source URLs, the first of them with an explicit fn.
C5_Witness ==
    /\ pc = "done"
    /\ art = "foo_bz2"
    /\ Len(fetched) = 2
    /\ \E k \in 1..Len(Split(Val(rewritten), "\n")) :
         StartsWith(Split(Val(rewritten), "\n")[k], "#  - url:")

\* C7: the finalize step (meta.yaml deleted, the rewritten template renamed into
\* its place) runs exactly in the runs without info/recipe/parent.  With a
\* parent, the feedstock holds the files of the parent subtree as copied, its
\* meta.yaml as replace_urls rewrote it, and nothing is deleted or renamed;
\* without one, a completed run leaves meta.yaml with the rewritten template
\* text, no meta.yaml.template and no conda_build_config.yaml.
C7_FinalizeIffNoParent ==
    InRun =>
        /\ finalized => ~HasParent(art)
        /\ (pc \in {"extract_reqs", "done"} /\ ~HasParent(art)) => finalized
        /\ (HasParent(art) /\ Nv \in DOMAIN copied_by /\ copied_by[Nv] = run) =>
             LET parent == Val(Artifacts[art].parent)
             IN /\ DOMAIN recipes[Nv] = DOMAIN parent
                /\ \A f \in DOMAIN parent :
                     recipes[Nv][f].text =
                        IF f = "meta.yaml" /\ rewritten # None THEN Val(rewritten)
                        ELSE parent[f].text
        /\ (~HasParent(art) /\ pc = "done") =>
             /\ "meta.yaml" \in DOMAIN recipes[Nv]
             /\ recipes[Nv]["meta.yaml"].text = Val(rewritten)
             /\ "meta.yaml.template" \notin DOMAIN recipes[Nv]
             /\ "conda_build_config.yaml" \notin DOMAIN recipes[Nv]

\* A run on a multi-output recipe has completed without the finalize step.
C7_Witness ==
    /\ pc = "done"
    /\ HasParent(art)
    /\ ~finalized
    /\ "build.sh" \in DOMAIN recipes[Nv]

\* The artifact run r was given.
RunArt(r) == IF r <= Len(history) THEN history[r].art ELSE art

\* C9: the directory of every nv holds only files that the last run to copy a
\* recipe there put there, all of them files of that run's recipe: nothing of
\* an earlier feedstock of the same nv survives the copy.
C9_ReplaceNeverMerge ==
    \A nv \in DOMAIN recipes :
        /\ nv \in DOMAIN copied_by
        /\ \A f \in DOMAIN recipes[nv] :
             /\ recipes[nv][f].by = copied_by[nv]
             /\ f \in DOMAIN SourceTree(RunArt(copied_by[nv]))

\* The second run has copied its recipe over the directory that a run of
\* another build of the same nv, failed after its copy, had left behind.
C9_Witness ==
    /\ run = 2
    /\ pc = "load_urls"
    /\ art = "foo_conda"
    /\ history[1].art = "foo_nohash"
    /\ history[1].failed_at = "load_urls"
    /\ copied_by[Nv] = 2

====
